---- MODULE Spec2Model ----
(***************************************************************************)
(* fohlcv: download TOHLCV bars from a market-data provider, validate the  *)
(* series and save it under a path derived from the request.               *)
(*                                                                         *)
(* Python strings are modelled as sequences of characters, each character  *)
(* a one-character TLA+ string ("U+00E9" stands for the single non-ASCII   *)
(* letter e-acute).  None is the model value None.                         *)
(***************************************************************************)
EXTENDS Integers, Sequences, FiniteSets, TLC

VARIABLES
    call,      \* a direct call of a library function: its name and arguments
    ret,       \* what that call returned or raised ("pending" before it ran)
    pc,        \* position of the current run of main
    argv,      \* parsed command line, and the wizard's answers, of the run
    req,       \* main's locals ticker, interval, start, end, period, fmt, no_save
    warn,      \* the warning _fix_same_day_range gave main
    sent,      \* the request yf.download received in this run (None: not contacted)
    df,        \* the frame fetch_tohlcv_yahoo returned in this run
    steps,     \* the calls main made in this run, in order, with their outcome
    exit,      \* main's return value, "raised" for an uncaught exception
    files,     \* paths save_df wrote, over all runs
    dirs,      \* folders created, over all runs
    run        \* number of the current run of main

vars == <<call, ret, pc, argv, req, warn, sent, df, steps, exit, files, dirs, run>>

\* Python's None, among strings: a sequence no string is, every character
\* being one letter long
None == <<"None">>

\* exceptions, as values a call can end with
ValueError == [err |-> "ValueError"]
OverflowError == [err |-> "OverflowError"]
RuntimeError == [err |-> "RuntimeError"]
IsError(x) == "err" \in DOMAIN x

-----------------------------------------------------------------------------
(* Characters and strings                                                  *)

Range(s) == {s[i] : i \in DOMAIN s}

DigitSeq == <<"0", "1", "2", "3", "4", "5", "6", "7", "8", "9">>
UpperSeq == <<"A", "B", "C", "D", "E", "F", "G", "H", "I", "J", "K", "L", "M",
              "N", "O", "P", "Q", "R", "S", "T", "U", "V", "W", "X", "Y", "Z">>
LowerSeq == <<"a", "b", "c", "d", "e", "f", "g", "h", "i", "j", "k", "l", "m",
              "n", "o", "p", "q", "r", "s", "t", "u", "v", "w", "x", "y", "z">>
Digits == Range(DigitSeq)
Upper == Range(UpperSeq)
Lower == Range(LowerSeq)

\* str.lower()
LowerChar(c) ==
    IF c \in Upper THEN LowerSeq[CHOOSE i \in DOMAIN UpperSeq : UpperSeq[i] = c] ELSE c
lower(s) == [i \in DOMAIN s |-> LowerChar(s[i])]

\* the character class [A-Za-z0-9] of the two regular expressions
IsAlnum(c) == c \in Digits \cup Upper \cup Lower

\* what str.strip() removes
Whitespace == {" ", "\t"}

RECURSIVE LStrip(_, _)
LStrip(s, cs) ==
    IF s # <<>> /\ Head(s) \in cs THEN LStrip(Tail(s), cs) ELSE s

RECURSIVE RStrip(_, _)
RStrip(s, cs) ==
    IF s # <<>> /\ s[Len(s)] \in cs THEN RStrip(SubSeq(s, 1, Len(s) - 1), cs) ELSE s

\* str.strip() and str.strip(chars)
Strip(s, cs) == RStrip(LStrip(s, cs), cs)

\* utils.is_blank
is_blank(s) == s = None \/ Strip(s, Whitespace) = <<>>

\* one match of the greedy pattern X+ at the head of s is consumed
RECURSIVE DropRun(_, _)
DropRun(s, cs) ==
    IF s # <<>> /\ Head(s) \in cs THEN DropRun(Tail(s), cs) ELSE s

\* re.sub(r"[^A-Za-z0-9]+", "_", s)
RECURSIVE SubNonAlnum(_)
SubNonAlnum(s) ==
    IF s = <<>> THEN <<>>
    ELSE IF IsAlnum(Head(s)) THEN <<Head(s)>> \o SubNonAlnum(Tail(s))
    ELSE <<"_">> \o SubNonAlnum(DropRun(Tail(s), {c \in Range(s) : ~IsAlnum(c)}))

\* re.sub(r"_+", "_", s)
RECURSIVE SubUnderscores(_)
SubUnderscores(s) ==
    IF s = <<>> THEN <<>>
    ELSE IF Head(s) # "_" THEN <<Head(s)>> \o SubUnderscores(Tail(s))
    ELSE <<"_">> \o SubUnderscores(DropRun(Tail(s), {"_"}))

NA_TOKEN == <<"N", "A">>

\* a mutant of _sanitize_token: the leading and trailing "_" are kept
SanitizeNoStrip(s) ==
    LET t == SubUnderscores(SubNonAlnum(Strip(s, Whitespace)))
    IN  IF t = <<>> THEN NA_TOKEN ELSE t

\* a mutant of _sanitize_token: characters are kept as they are
SanitizeKeepChars(s) ==
    LET t == Strip(SubUnderscores(Strip(s, Whitespace)), {"_"})
    IN  IF t = <<>> THEN NA_TOKEN ELSE t

\* io._sanitize_token
_sanitize_token(s) ==
    LET s1 == Strip(s, Whitespace)
        s2 == SubNonAlnum(s1)
        s3 == Strip(SubUnderscores(s2), {"_"})
    IN  IF s3 = <<>> THEN NA_TOKEN ELSE s3

-----------------------------------------------------------------------------
(* Paths: a pathlib.Path is the sequence of its components                 *)

Separators == {"/", "\\"}

\* the components of a relative path string
RECURSIVE SplitPath(_, _)
SplitPath(s, cur) ==
    IF s = <<>> THEN (IF cur = <<>> THEN <<>> ELSE <<cur>>)
    ELSE IF Head(s) \in Separators
         THEN (IF cur = <<>> THEN <<>> ELSE <<cur>>) \o SplitPath(Tail(s), <<>>)
         ELSE SplitPath(Tail(s), cur \o <<Head(s)>>)

\* Path.__truediv__ with a relative string
PathJoin(p, s) == p \o SplitPath(s, <<>>)

\* io.FIXED_DATA_ROOT
FIXED_DATA_ROOT == << <<"d", "a", "t", "a">> >>

TOHLCV_DIR == <<"t", "o", "h", "l", "c", "v">>

\* io.build_outpath_fixed: the path returned and the folder it creates
build_outpath_fixed(ticker, interval, start_tag, end_tag, ext, data_root) ==
    LET safe_ticker == _sanitize_token(ticker)
        safe_interval == _sanitize_token(interval)
        safe_start == _sanitize_token(start_tag)
        safe_end == _sanitize_token(end_tag)
        folder == PathJoin(PathJoin(PathJoin(data_root, safe_ticker), TOHLCV_DIR),
                           safe_interval)
        filename == safe_start \o <<"_">> \o safe_end \o ext
    IN  [path |-> PathJoin(folder, filename), mkdir |-> folder]

-----------------------------------------------------------------------------
(* Dates: datetime, timedelta, dateutil's isoparse, strftime               *)

\* datetime.MINYEAR, datetime.MAXYEAR
MINYEAR == 1
MAXYEAR == 9999

\* int() of one decimal digit
DigitVal(c) == CHOOSE n \in 0..9 : DigitSeq[n + 1] = c

AllDigits(s) == \A i \in DOMAIN s : s[i] \in Digits

\* int() of a string of decimal digits
RECURSIVE IntOf(_)
IntOf(s) ==
    IF s = <<>> THEN 0 ELSE 10 * IntOf(SubSeq(s, 1, Len(s) - 1)) + DigitVal(s[Len(s)])

\* str() of a natural number
RECURSIVE StrOf(_)
StrOf(n) == IF n < 10 THEN <<DigitSeq[n + 1]>> ELSE StrOf(n \div 10) \o <<DigitSeq[(n % 10) + 1]>>

\* zero padding to width w, as %02d and %04d do
RECURSIVE ZeroPad(_, _)
ZeroPad(s, w) == IF Len(s) >= w THEN s ELSE ZeroPad(<<"0">> \o s, w)

is_leap(y) == y % 4 = 0 /\ (y % 100 # 0 \/ y % 400 = 0)

days_in_month(y, m) ==
    IF m = 2 THEN (IF is_leap(y) THEN 29 ELSE 28)
    ELSE IF m \in {4, 6, 9, 11} THEN 30 ELSE 31

\* datetime(y, m, d): the date, or ValueError
ValidDate(y, m, d) ==
    /\ y \in MINYEAR..MAXYEAR
    /\ m \in 1..12
    /\ d \in 1..days_in_month(y, m)

days_before_year(y) ==
    LET p == y - 1 IN p * 365 + (p \div 4) - (p \div 100) + (p \div 400)

RECURSIVE days_before_month(_, _)
days_before_month(y, m) ==
    IF m = 1 THEN 0 ELSE days_before_month(y, m - 1) + days_in_month(y, m - 1)

\* date.toordinal
ymd2ord(y, m, d) == days_before_year(y) + days_before_month(y, m) + d

MAXORDINAL == ymd2ord(MAXYEAR, 12, 31)

\* date.fromordinal
ord2ymd(n) ==
    LET y == CHOOSE k \in (n \div 366)..((n \div 365) + 1) :
                 days_before_year(k) < n /\ n <= days_before_year(k + 1)
        r == n - days_before_year(y)
        m == CHOOSE k \in 1..12 :
                 days_before_month(y, k) < r
                 /\ r <= days_before_month(y, k) + days_in_month(y, k)
    IN  [y |-> y, m |-> m, d |-> r - days_before_month(y, m)]

\* date + timedelta(days=n): the date, or OverflowError outside 1..MAXORDINAL
AddDays(date, n) ==
    LET o == ymd2ord(date.y, date.m, date.d) + n
    IN  IF o < 1 \/ o > MAXORDINAL THEN OverflowError ELSE ord2ymd(o)

\* the time of day after the separator, as isoparse reads hh:mm
\* (24:00 is midnight of the next day); ValueError when it is not one
ParseIsoTime(s) ==
    IF /\ Len(s) = 5
       /\ AllDigits(SubSeq(s, 1, 2)) /\ s[3] = ":" /\ AllDigits(SubSeq(s, 4, 5))
    THEN LET hh == IntOf(SubSeq(s, 1, 2))
             mm == IntOf(SubSeq(s, 4, 5))
         IN  IF hh = 24 /\ mm = 0 THEN [hh |-> 0, mm |-> 0, nextday |-> TRUE]
             ELSE IF hh <= 23 /\ mm <= 59 THEN [hh |-> hh, mm |-> mm, nextday |-> FALSE]
             ELSE ValueError
    ELSE ValueError

\* the calendar date of the common ISO-8601 forms YYYY, YYYY-MM, YYYY-MM-DD and
\* YYYYMMDD, and the rest of the string; ValueError when s has none of them
ParseIsoDate(s) ==
    IF Len(s) < 4 \/ ~AllDigits(SubSeq(s, 1, 4)) THEN ValueError
    ELSE
      LET y == IntOf(SubSeq(s, 1, 4))
          has_sep == Len(s) >= 5 /\ s[5] = "-"
          pm == IF has_sep THEN 6 ELSE 5
      IN  IF Len(s) = 4 THEN [y |-> y, m |-> 1, d |-> 1, rest |-> <<>>]
          ELSE IF Len(s) < pm + 1 \/ ~AllDigits(SubSeq(s, pm, pm + 1)) THEN ValueError
          ELSE
            LET m == IntOf(SubSeq(s, pm, pm + 1))
                pd == IF has_sep THEN pm + 3 ELSE pm + 2
            IN  IF Len(s) = pm + 1
                THEN (IF has_sep THEN [y |-> y, m |-> m, d |-> 1, rest |-> <<>>]
                      ELSE ValueError)
                ELSE IF has_sep /\ s[pm + 2] # "-" THEN ValueError
                ELSE IF Len(s) < pd + 1 \/ ~AllDigits(SubSeq(s, pd, pd + 1))
                THEN ValueError
                ELSE [y |-> y, m |-> m, d |-> IntOf(SubSeq(s, pd, pd + 1)),
                      rest |-> SubSeq(s, pd + 2, Len(s))]

\* dateutil.parser.isoparse(s).date(): [y, m, d], or the exception raised
isoparse_date(s) ==
    LET p == ParseIsoDate(s)
    IN  IF IsError(p) THEN p
        ELSE IF p.rest = <<>>
        THEN (IF ValidDate(p.y, p.m, p.d) THEN [y |-> p.y, m |-> p.m, d |-> p.d]
              ELSE ValueError)
        ELSE LET t == ParseIsoTime(Tail(p.rest))
             IN  IF IsError(t) \/ ~ValidDate(p.y, p.m, p.d) THEN ValueError
                 ELSE IF t.nextday THEN AddDays([y |-> p.y, m |-> p.m, d |-> p.d], 1)
                 ELSE [y |-> p.y, m |-> p.m, d |-> p.d]

\* cli._parse_date_yyyy_mm_dd: datetime(d.year, d.month, d.day)
_parse_date_yyyy_mm_dd(s) == isoparse_date(s)

\* datetime.strftime("%Y-%m-%d"), and str() of a date, for the years from
\* 1000 on (below, the C library decides whether %Y pads the year)
strftime_ymd(date) ==
    StrOf(date.y) \o <<"-">> \o ZeroPad(StrOf(date.m), 2)
    \o <<"-">> \o ZeroPad(StrOf(date.d), 2)

\* the f-string of the warning, its fixed text shortened: the two values it
\* interpolates are kept
Warning(end, new_end) ==
    <<"s", "t", "a", "r", "t", "=", "e", "n", "d", "=">> \o end
    \o <<" ", "e", "n", "d", "-", ">">> \o new_end

\* a returned tuple (start, end, warn); an exception that leaves the function
Returned(start, end, w) == [start |-> start, end |-> end, warn |-> w]
Raised(e) == e

\* a mutant of _fix_same_day_range: a range that ends before it starts is
\* treated like a single day
FixAlsoReversed(start, end) ==
    IF start \in {None, <<>>} \/ end \in {None, <<>>} THEN Returned(start, end, None)
    ELSE LET ds == _parse_date_yyyy_mm_dd(start)
             de == _parse_date_yyyy_mm_dd(end)
         IN  IF IsError(ds) \/ IsError(de) THEN Returned(start, end, None)
             ELSE IF ymd2ord(ds.y, ds.m, ds.d) >= ymd2ord(de.y, de.m, de.d)
             THEN LET nd == AddDays(ds, 1)
                  IN  IF IsError(nd) THEN Raised(nd)
                      ELSE Returned(start, strftime_ymd(nd),
                                    Warning(end, strftime_ymd(nd)))
             ELSE Returned(start, end, None)

\* cli._fix_same_day_range
_fix_same_day_range(start, end) ==
    IF start \in {None, <<>>} \/ end \in {None, <<>>} THEN Returned(start, end, None)
    ELSE LET ds == _parse_date_yyyy_mm_dd(start)
             de == _parse_date_yyyy_mm_dd(end)
         IN  IF IsError(ds) \/ IsError(de) THEN Returned(start, end, None)
             ELSE IF ds = de
             THEN LET nd == AddDays(de, 1)
                  IN  IF IsError(nd) THEN Raised(nd)
                      ELSE Returned(start, strftime_ymd(nd),
                                    Warning(end, strftime_ymd(nd)))
             ELSE Returned(start, end, None)

-----------------------------------------------------------------------------
(* Frames: a pandas DataFrame is its set of column names and its rows.     *)
(* A cell is a sequence: <<>> is a missing value (NaN, NaT, None), <<h>> a *)
(* timestamp (h hours after some epoch) and <<t, f>> the number the        *)
(* provider gave for field f of ticker t.  A row gives every column of the *)
(* schema a cell; the cells of a column the frame does not have are not    *)
(* read.                                                                   *)

NaN == <<>>
NaT == <<>>
isna(v) == v = <<>>

\* validate.REQUIRED_COLS
REQUIRED_COLS == <<"time", "open", "high", "low", "close", "volume">>
OHLC == <<"open", "high", "low", "close">>

Column(frame, c) == [i \in DOMAIN frame.rows |-> frame.rows[i][c]]

\* Series.duplicated().sum(): the values equal to an earlier one
duplicated_sum(col) ==
    Cardinality({i \in DOMAIN col : \E j \in 1..(i - 1) : col[j] = col[i]})

\* Series.is_monotonic_increasing, on timestamps none of which is missing
is_monotonic_increasing(col) ==
    \A i \in 1..(Len(col) - 1) : col[i][1] <= col[i + 1][1]

Ok == [ok |-> TRUE]
Error(kind, msg) == [err |-> kind, msg |-> msg]

\* a mutant of validate_tohlcv: repeated timestamps are not looked for
ValidateNoDuplicateCheck(frame) ==
    IF \E i \in DOMAIN REQUIRED_COLS : REQUIRED_COLS[i] \notin frame.columns
    THEN Error("ValueError", "Faltan columnas")
    ELSE IF frame.rows = <<>> THEN Error("ValueError", "DataFrame vacio")
    ELSE IF \E i \in DOMAIN frame.rows : isna(frame.rows[i]["time"])
    THEN Error("ValueError", "Hay NaNs en time")
    ELSE IF ~is_monotonic_increasing(Column(frame, "time"))
    THEN Error("ValueError", "time no esta ordenado ascendente")
    ELSE IF \E k \in DOMAIN OHLC : \A i \in DOMAIN frame.rows : isna(frame.rows[i][OHLC[k]])
    THEN Error("ValueError", "Columna viene toda NaN")
    ELSE Ok

\* validate.validate_tohlcv: Ok when it returns, the ValueError it raises
validate_tohlcv(frame) ==
    IF \E i \in DOMAIN REQUIRED_COLS : REQUIRED_COLS[i] \notin frame.columns
    THEN Error("ValueError", "Faltan columnas")
    ELSE IF frame.rows = <<>> THEN Error("ValueError", "DataFrame vacio")
    ELSE IF \E i \in DOMAIN frame.rows : isna(frame.rows[i]["time"])
    THEN Error("ValueError", "Hay NaNs en time")
    ELSE IF duplicated_sum(Column(frame, "time")) # 0
    THEN Error("ValueError", "Hay timestamps duplicados")
    ELSE IF ~is_monotonic_increasing(Column(frame, "time"))
    THEN Error("ValueError", "time no esta ordenado ascendente")
    ELSE IF \E k \in DOMAIN OHLC : \A i \in DOMAIN frame.rows : isna(frame.rows[i][OHLC[k]])
    THEN Error("ValueError", "Columna viene toda NaN")
    ELSE Ok

-----------------------------------------------------------------------------
(* The provider (yfinance) and fetch_tohlcv_yahoo                          *)
(*                                                                         *)
(* What yf.download answers is not decided by this program: a response is  *)
(* None, or a frame with                                                   *)
(*   multi   whether its columns are a MultiIndex (field, ticker)          *)
(*   tickers the ticker level's values in column order; for single-level   *)
(*           columns, the one ticker the numbers belong to                 *)
(*   fields  the provider's field names                                    *)
(*   tz      the time zone of the index, "naive" for none                  *)
(*   index   the timestamps of the rows                                    *)
(* and the cell of field f, ticker t is <<t, f>> in every row.             *)
(* auto_adjust, prepost, timeout and threads are handed through unread and *)
(* are left out.                                                           *)

NoResponse == [none |-> TRUE]

\* df is None or df.empty
response_empty(resp) ==
    \/ "none" \in DOMAIN resp
    \/ resp.index = <<>>
    \/ resp.fields = {}

\* the columns= mapping of df.rename; other names are kept
Rename(f) ==
    CASE f = "Open" -> "open"
      [] f = "High" -> "high"
      [] f = "Low" -> "low"
      [] f = "Close" -> "close"
      [] f = "Adj Close" -> "adj_close"
      [] f = "Volume" -> "volume"
      [] OTHER -> f

SIXTY_DAYS == <<"6", "0", "d">>

NotContacted == [contacted |-> FALSE]

\* a mutant of DownloadRequest: a period that was given is sent along with
\* start and end
RequestKeepsPeriod(ticker, interval, start, end, period) ==
    IF period # None
    THEN [contacted |-> TRUE, tickers |-> ticker, interval |-> interval,
          period |-> period]
    ELSE IF start # None \/ end # None
    THEN [contacted |-> TRUE, tickers |-> ticker, interval |-> interval,
          start |-> start, end |-> end]
    ELSE [contacted |-> TRUE, tickers |-> ticker, interval |-> interval,
          period |-> SIXTY_DAYS]

\* the keyword arguments of the yf.download call, for a ticker already stripped
DownloadRequest(ticker, interval, start, end, period) ==
    IF start # None \/ end # None
    THEN [contacted |-> TRUE, tickers |-> ticker, interval |-> interval,
          start |-> start, end |-> end]
    ELSE [contacted |-> TRUE, tickers |-> ticker, interval |-> interval,
          period |-> IF period = None THEN SIXTY_DAYS ELSE period]

\* a mutant of SelectTicker: the first ticker of the response is always taken
SelectFirstTicker(ticker, resp) == resp.tickers[1]

\* the ticker whose columns are kept: df.xs(ticker, axis=1, level=-1) when the
\* response has it, the first ticker of the response otherwise; single-level
\* columns are kept as they are
SelectTicker(ticker, resp) ==
    IF resp.multi
    THEN (IF ticker \in Range(resp.tickers) THEN ticker ELSE resp.tickers[1])
    ELSE resp.tickers[1]

\* df.get(c) after the rename, as a cell: None when there is no such column
GetCell(c, src, fields) ==
    IF \E f \in fields : Rename(f) = c
    THEN <<src, CHOOSE f \in fields : Rename(f) = c>>
    ELSE NaN

\* the order of sort_values("time"): ascending, missing timestamps last
TimeLeq(a, b) == isna(b) \/ (~isna(a) /\ a[1] <= b[1])

RECURSIVE InsertRow(_, _)
InsertRow(row, sorted) ==
    IF sorted = <<>> THEN <<row>>
    ELSE IF TimeLeq(Head(sorted)["time"], row["time"])
         THEN <<Head(sorted)>> \o InsertRow(row, Tail(sorted))
         ELSE <<row>> \o sorted

\* a mutant of sort_values: the rows stay in the provider's order
SortKeepsOrder(rows) == rows

\* DataFrame.sort_values("time").reset_index(drop=True)
RECURSIVE sort_values(_)
sort_values(rows) ==
    IF rows = <<>> THEN <<>>
    ELSE InsertRow(rows[Len(rows)], sort_values(SubSeq(rows, 1, Len(rows) - 1)))

Range6 == {REQUIRED_COLS[i] : i \in DOMAIN REQUIRED_COLS}

\* the keys of the dict the output frame is built from
OutputColumns(fields) == Range6

\* the part of fetch_tohlcv_yahoo after the download: the frame it returns
\* for the response, or the RuntimeError it raises
NormalizeResponse(ticker, interval, resp) ==
    IF response_empty(resp) THEN Error("RuntimeError", "Yahoo no devolvio datos")
    ELSE
      LET src == SelectTicker(ticker, resp)
          row(i) == [time |-> resp.index[i],
                     open |-> GetCell("open", src, resp.fields),
                     high |-> GetCell("high", src, resp.fields),
                     low |-> GetCell("low", src, resp.fields),
                     close |-> GetCell("close", src, resp.fields),
                     volume |-> GetCell("volume", src, resp.fields)]
      IN  [columns |-> OutputColumns(resp.fields),
           rows |-> sort_values([i \in DOMAIN resp.index |-> row(i)]),
           tz |-> "UTC"]

-----------------------------------------------------------------------------
(* fetch_tohlcv_yahoo as a whole, save_df, and the steps of main           *)

ProviderError == Error("ProviderError", "yf.download raised")

ProviderRaised == [raised |-> TRUE]

\* yahoo.fetch_tohlcv_yahoo, for what the provider does when it is called
\* (resp: its answer, or ProviderRaised): what yf.download was sent, and the
\* frame returned or the exception raised
fetch_tohlcv_yahoo(ticker, interval, start, end, period, resp) ==
    LET tk == Strip(ticker, Whitespace)
    IN  IF tk = <<>>
        THEN [sent |-> NotContacted, result |-> Error("ValueError", "ticker vacio")]
        ELSE [sent |-> DownloadRequest(tk, interval, start, end, period),
              result |-> IF resp = ProviderRaised THEN ProviderError
                         ELSE NormalizeResponse(tk, interval, resp)]

\* Path.suffix of the last component
Suffix(path) ==
    LET name == path[Len(path)]
        dots == {i \in DOMAIN name : name[i] = "."}
    IN  IF dots = {} THEN <<>>
        ELSE LET i == CHOOSE k \in dots : \A j \in dots : j <= k
             IN  IF i = 1 \/ i = Len(name) THEN <<>> ELSE SubSeq(name, i, Len(name))

PARQUET == <<".", "p", "a", "r", "q", "u", "e", "t">>
CSV == <<".", "c", "s", "v">>

\* io.save_df: the folder it creates, and whether it writes or raises
save_df(path) ==
    [mkdir |-> SubSeq(path, 1, Len(path) - 1),
     result |-> IF lower(Suffix(path)) \in {PARQUET, CSV} THEN Ok
                ELSE Error("ValueError", "Extension no soportada")]

\* Path(args.out).resolve(), for a relative path without dots
CWD == << <<"c", "w", "d">> >>
Resolve(s) == PathJoin(CWD, s)

\* the hour 0 of the timestamps is midnight of this day
EpochDate == [y |-> 2024, m |-> 12, d |-> 31]

\* str(t.date()) of a timestamp
DateTag(t) == strftime_ymd(AddDays(EpochDate, t[1] \div 24))

\* cli.DEFAULT_INTERVAL
DEFAULT_INTERVAL == <<"1", "h">>

AAPL == <<"A", "A", "P", "L">>
MSFT == <<"M", "S", "F", "T">>

\* cli._ask: the stripped input, the default when it is empty
_ask(input, default) ==
    LET s == Strip(input, Whitespace)
    IN  IF default = None THEN s ELSE IF s # <<>> THEN s ELSE default

Typed(x) == IF x = None THEN <<>> ELSE x
OrNone(s) == IF s = <<>> THEN None ELSE s

\* cli._wizard: the dict it returns for what the user types at the prompts
\* (at the prompts of start, end, period, format and save the user types what
\* the flags of the same run carry)
_wizard(a) ==
    LET examples == IF a.asset_type = "stock" THEN <<AAPL>> ELSE <<>>
        ticker == _ask(a.typed, IF examples # <<>> THEN examples[1] ELSE <<>>)
        interval == _ask(a.interval, DEFAULT_INTERVAL)
        start == _ask(Typed(a.start), <<>>)
        end == _ask(Typed(a.end), <<>>)
        period == IF start = <<>> /\ end = <<>>
                  THEN _ask(Typed(a.period), SIXTY_DAYS) ELSE None
    IN  [ticker |-> ticker, interval |-> interval, start |-> OrNone(start),
         end |-> OrNone(end), period |-> period, fmt |-> a.format,
         no_save |-> a.no_save]

\* main, lines 186-195: the locals on the flag-driven path
FlagRequest(a) ==
    LET start == IF is_blank(a.start) THEN None ELSE a.start
        end == IF is_blank(a.end) THEN None ELSE a.end
        use_start_end == start # None \/ end # None
    IN  [ticker |-> a.ticker, interval |-> a.interval, start |-> start, end |-> end,
         period |-> IF use_start_end THEN None
                    ELSE IF is_blank(a.period) THEN None ELSE a.period,
         fmt |-> a.format, no_save |-> a.no_save]

use_wizard(a) == a.wizard \/ is_blank(a.ticker)

Truthy(s) == s \notin {None, <<>>}

\* a mutant of OutTags: the tags are always the dates of the data
TagsFromData(r, frame) ==
    [start_tag |-> DateTag(frame.rows[1]["time"]),
     end_tag |-> DateTag(frame.rows[Len(frame.rows)]["time"])]

\* main, lines 244-251: the tags of the file name
OutTags(r, frame) ==
    IF Truthy(r.start) /\ Truthy(r.end)
    THEN [start_tag |-> r.start, end_tag |-> r.end]
    ELSE [start_tag |-> DateTag(frame.rows[1]["time"]),
          end_tag |-> DateTag(frame.rows[Len(frame.rows)]["time"])]

-----------------------------------------------------------------------------
(* Inputs                                                                  *)

MaxBars == 2
MaxRuns == 2

SeqsUpTo(S, n) == UNION {[1..k -> S] : k \in 0..n}

D_2024_02_28 == <<"2", "0", "2", "4", "-", "0", "2", "-", "2", "8">>
D_20240228 == <<"2", "0", "2", "4", "0", "2", "2", "8">>
D_2024_12_31 == <<"2", "0", "2", "4", "-", "1", "2", "-", "3", "1">>
D_9999_12_31 == <<"9", "9", "9", "9", "-", "1", "2", "-", "3", "1">>
P_5d == <<"5", "d">>
O_csv == <<"o", ".", "c", "s", "v">>
O_txt == <<"o", ".", "t", "x", "t">>

ProviderFields == {"Open", "High", "Low", "Close", "Adj Close", "Volume"}

\* the provider's answers: None, and the frames over the given tickers,
\* fields, time zones and timestamps
Responses(multis, tickerSeqs, fieldSets, tzs, times, n) ==
    {NoResponse} \cup
    {r \in [multi : multis, tickers : tickerSeqs, fields : fieldSets, tz : tzs,
            index : SeqsUpTo(times, n)] : r.multi \/ Len(r.tickers) = 1}

\* what the provider may answer to a run of main
MainResponses ==
    Responses({FALSE}, {<<AAPL>>}, {ProviderFields}, {"naive"}, {<<0>>, <<30>>},
              MaxBars)

\* what the provider may answer to a direct call of fetch_tohlcv_yahoo
CallResponses ==
    Responses(BOOLEAN, {<<AAPL>>, <<MSFT>>, <<AAPL, MSFT>>, <<MSFT, AAPL>>},
              {ProviderFields, ProviderFields \ {"Adj Close"},
               ProviderFields \ {"Open"}, {}},
              {"naive", "America/New_York"}, {NaT, <<0>>, <<30>>}, MaxBars)

MainStarts == {None, <<>>, D_2024_02_28, D_9999_12_31}
MainEnds == {None, D_2024_02_28, D_20240228, D_2024_12_31, D_9999_12_31}

\* --format, --no-save and --out
SaveOptions ==
    {[format |-> "parquet", no_save |-> FALSE, out |-> None],
     [format |-> "csv", no_save |-> FALSE, out |-> None],
     [format |-> "parquet", no_save |-> TRUE, out |-> None],
     [format |-> "parquet", no_save |-> FALSE, out |-> O_csv],
     [format |-> "csv", no_save |-> FALSE, out |-> O_txt]}

\* the command lines of main, with what is typed at the wizard's prompts
Argvs ==
    {[wizard |-> m.wizard, ticker |-> m.ticker, asset_type |-> m.asset_type,
      typed |-> m.typed, interval |-> DEFAULT_INTERVAL, start |-> s, end |-> e,
      period |-> p, format |-> so.format, no_save |-> so.no_save, out |-> so.out] :
        m \in {[wizard |-> FALSE, ticker |-> AAPL, asset_type |-> "stock", typed |-> <<>>],
               [wizard |-> TRUE, ticker |-> AAPL, asset_type |-> "stock", typed |-> <<>>],
               [wizard |-> FALSE, ticker |-> None, asset_type |-> "other", typed |-> <<>>],
               [wizard |-> FALSE, ticker |-> <<" ">>, asset_type |-> "other",
                typed |-> <<" ", "^", "G", "S", "P", "C">>]},
        s \in MainStarts, e \in MainEnds, p \in {None, <<" ">>, P_5d},
        so \in SaveOptions}

\* the direct calls of fetch_tohlcv_yahoo
FetchCalls ==
    {[fn |-> "fetch_tohlcv_yahoo", ticker |-> tk, interval |-> DEFAULT_INTERVAL,
      start |-> s, end |-> e, period |-> p] :
        tk \in {AAPL, <<" ", "M", "S", "F", "T", " ">>, <<"a", "a", "p", "l">>, <<" ", "\t">>},
        s \in {None, <<>>, D_2024_02_28}, e \in {None, D_2024_12_31},
        p \in {None, <<>>, P_5d}}

NoCall == [fn |-> "none"]
Pending == [status |-> "pending"]
NoFrame == [none |-> TRUE]
NoRequest == [none |-> TRUE]
Running == [state |-> "running"]
ExitCode(n) == [code |-> n]
Uncaught(e, fn) == [uncaught |-> e.err, from |-> fn]

-----------------------------------------------------------------------------
(* The program: runs of main, and direct calls of fetch_tohlcv_yahoo       *)

InitMain ==
    /\ argv \in Argvs
    /\ pc = "parse"
    /\ call = NoCall
    /\ ret = Pending
    /\ req = NoRequest
    /\ warn = None
    /\ sent = NotContacted
    /\ df = NoFrame
    /\ steps = <<>>
    /\ exit = Running
    /\ files = {}
    /\ dirs = {}
    /\ run = 1

InitCall ==
    /\ call \in FetchCalls
    /\ ret = Pending
    /\ pc = "idle"
    /\ argv = NoRequest
    /\ req = NoRequest
    /\ warn = None
    /\ sent = NotContacted
    /\ df = NoFrame
    /\ steps = <<>>
    /\ exit = Running
    /\ files = {}
    /\ dirs = {}
    /\ run = 0

Init == InitMain \/ InitCall

\* main, lines 172-195: the arguments, by the wizard or by the flags
Parse ==
    /\ pc = "parse"
    /\ req' = IF use_wizard(argv) THEN _wizard(argv) ELSE FlagRequest(argv)
    /\ pc' = "fix"
    /\ UNCHANGED <<call, ret, argv, warn, sent, df, steps, exit, files, dirs, run>>

\* main, lines 197-200: an exception of _fix_same_day_range leaves main
Fix ==
    /\ pc = "fix"
    /\ LET r == _fix_same_day_range(req.start, req.end)
       IN  IF IsError(r)
           THEN /\ exit' = Uncaught(r, "_fix_same_day_range")
                /\ pc' = "done"
                /\ UNCHANGED <<req, warn>>
           ELSE /\ req' = [req EXCEPT !.start = r.start, !.end = r.end]
                /\ warn' = r.warn
                /\ pc' = "fetch"
                /\ UNCHANGED exit
    /\ UNCHANGED <<call, ret, argv, sent, df, steps, files, dirs, run>>

\* main, lines 203-212
Fetch ==
    /\ pc = "fetch"
    /\ \E resp \in MainResponses \cup {ProviderRaised} :
         LET o == fetch_tohlcv_yahoo(req.ticker, req.interval, req.start, req.end,
                                     req.period, resp)
         IN
         /\ sent' = o.sent
         /\ IF IsError(o.result)
            THEN /\ steps' = Append(steps, "fetch raised")
                 /\ pc' = "except"
                 /\ UNCHANGED df
            ELSE /\ steps' = Append(steps, "fetch returned")
                 /\ df' = o.result
                 /\ pc' = "validate"
    /\ UNCHANGED <<call, ret, argv, req, warn, exit, files, dirs, run>>

\* a mutant of AfterValidate: the series is saved whatever validate_tohlcv said
AfterValidateIgnoresError(v) == "summary"

\* main, lines 213-214: where the run goes on after validate_tohlcv
AfterValidate(v) == IF IsError(v) THEN "except" ELSE "summary"

\* main, line 213
Validate ==
    /\ pc = "validate"
    /\ LET v == validate_tohlcv(df)
       IN  /\ steps' = Append(steps, IF IsError(v) THEN "validate raised"
                                     ELSE "validate returned")
           /\ pc' = AfterValidate(v)
    /\ UNCHANGED <<call, ret, argv, req, warn, sent, df, exit, files, dirs, run>>

\* main, lines 214-222
Except ==
    /\ pc = "except"
    /\ exit' = ExitCode(2)
    /\ pc' = "done"
    /\ UNCHANGED <<call, ret, argv, req, warn, sent, df, steps, files, dirs, run>>

\* main, lines 224-240 and 269: the summary, and nothing saved under --no-save
NoSave ==
    /\ pc = "summary"
    /\ req.no_save
    /\ exit' = ExitCode(0)
    /\ pc' = "done"
    /\ UNCHANGED <<call, ret, argv, req, warn, sent, df, steps, files, dirs, run>>

\* main, lines 224-269: the summary, the path, save_df
Save ==
    /\ pc = "summary"
    /\ ~req.no_save
    /\ LET tags == OutTags(req, df)
           ext == IF req.fmt = "parquet" THEN PARQUET ELSE CSV
           built == build_outpath_fixed(req.ticker, req.interval, tags.start_tag,
                                        tags.end_tag, ext, FIXED_DATA_ROOT)
           outpath == IF Truthy(argv.out) THEN Resolve(argv.out) ELSE built.path
           made == IF Truthy(argv.out) THEN {} ELSE {built.mkdir}
           s == save_df(outpath)
       IN  /\ dirs' = dirs \cup made \cup {s.mkdir}
           /\ IF IsError(s.result)
              THEN /\ steps' = Append(steps, "save raised")
                   /\ exit' = Uncaught(s.result, "save_df")
                   /\ UNCHANGED files
              ELSE /\ steps' = Append(steps, "save returned")
                   /\ exit' = ExitCode(0)
                   /\ files' = files \cup
                        {[path |-> outpath,
                          first |-> DateTag(df.rows[1]["time"]),
                          last |-> DateTag(df.rows[Len(df.rows)]["time"])]}
    /\ pc' = "done"
    /\ UNCHANGED <<call, ret, argv, req, warn, sent, df, run>>

\* the same command line is run again
NewRun ==
    /\ pc = "done"
    /\ run < MaxRuns
    /\ run' = run + 1
    /\ pc' = "parse"
    /\ req' = NoRequest
    /\ warn' = None
    /\ sent' = NotContacted
    /\ df' = NoFrame
    /\ steps' = <<>>
    /\ exit' = Running
    /\ UNCHANGED <<call, ret, argv, files, dirs>>

\* a direct call of fetch_tohlcv_yahoo
CallFetch ==
    /\ call.fn = "fetch_tohlcv_yahoo"
    /\ ret = Pending
    /\ \E resp \in CallResponses \cup {ProviderRaised} :
         LET o == fetch_tohlcv_yahoo(call.ticker, call.interval, call.start, call.end,
                                     call.period, resp)
         IN
         /\ sent' = o.sent
         /\ ret' = [status |-> IF IsError(o.result) THEN "raised" ELSE "returned",
                    value |-> o.result,
                    resp |-> IF o.sent.contacted THEN resp ELSE NoResponse]
         /\ df' = IF IsError(o.result) THEN NoFrame ELSE o.result
    /\ UNCHANGED <<call, pc, argv, req, warn, steps, exit, files, dirs, run>>

Next ==
    \/ Parse
    \/ Fix
    \/ Fetch
    \/ Validate
    \/ Except
    \/ NoSave
    \/ Save
    \/ NewRun
    \/ CallFetch

Spec == Init /\ [][Next]_vars

-----------------------------------------------------------------------------
(* Direct calls of the pure functions                                      *)

MaxLen == 4
MaxRows == 2

\* no run of main, no provider
NoMain ==
    /\ pc = "idle"
    /\ argv = NoRequest
    /\ req = NoRequest
    /\ warn = None
    /\ sent = NotContacted
    /\ df = NoFrame
    /\ steps = <<>>
    /\ exit = Running
    /\ files = {}
    /\ dirs = {}
    /\ run = 0

mainVars == <<pc, argv, req, warn, sent, df, steps, exit, files, dirs, run>>

Result(r) == [status |-> IF IsError(r) THEN "raised" ELSE "returned", value |-> r]

\* _fix_same_day_range -------------------------------------------------------

IsoYMD(y, m, d) ==
    ZeroPad(StrOf(y), 4) \o <<"-">> \o ZeroPad(StrOf(m), 2) \o <<"-">> \o ZeroPad(StrOf(d), 2)

\* YYYY-MM-DD for every month and the days a month can end on, with months
\* and days no calendar has (month 13, 30 February, 31 April)
DashDates ==
    {IsoYMD(y, m, d) : y \in {1900, 2023, 2024, 9999}, m \in 1..13,
                       d \in {1, 28, 29, 30, 31}}

\* the other forms isoparse reads, and strings it does not
OtherDates ==
    {D_20240228,
     <<"2", "0", "2", "4", "0", "2", "2", "9">>,
     <<"2", "0", "2", "4", "-", "0", "2">>,
     <<"2", "0", "2", "4">>,
     <<"2", "0", "2", "4", "0", "2">>,
     D_2024_02_28 \o <<"T", "1", "0", ":", "0", "0">>,
     D_2024_02_28 \o <<"T", "2", "4", ":", "0", "0">>,
     D_2024_12_31 \o <<" ", "2", "3", ":", "5", "9">>,
     D_2024_12_31 \o <<"T", "2", "4", ":", "0", "0">>,
     D_9999_12_31 \o <<"T", "2", "4", ":", "0", "0">>,
     <<"h", "o", "y">>,
     <<"2", "8", "/", "0", "2", "/", "2", "0", "2", "4">>}

DateInputs == {None, <<>>} \cup DashDates \cup OtherDates

InitRange ==
    /\ call \in {[fn |-> "_fix_same_day_range", start |-> s, end |-> e] :
                    s \in DateInputs, e \in DateInputs}
    /\ ret = Pending
    /\ NoMain

CallFix ==
    /\ call.fn = "_fix_same_day_range"
    /\ ret = Pending
    /\ ret' = Result(_fix_same_day_range(call.start, call.end))
    /\ UNCHANGED <<call, mainVars>>

SpecRange == InitRange /\ [][CallFix]_vars

\* validate_tohlcv -----------------------------------------------------------

TimeCells == {NaT, <<1>>, <<2>>, <<3>>}
PriceCells == {NaN, <<"AAPL", "v">>}

Cells(cols, c, present) == IF c \in cols THEN present ELSE {NaN}

\* the rows a frame with the columns cols can have
Rows(cols) ==
    [time : Cells(cols, "time", TimeCells),
     open : Cells(cols, "open", PriceCells),
     high : Cells(cols, "high", PriceCells),
     low : Cells(cols, "low", PriceCells),
     close : Cells(cols, "close", PriceCells),
     volume : Cells(cols, "volume", {<<"AAPL", "v">>})]

\* a call with any frame of at most MaxRows rows over any subset of the six
\* columns
InitValidate ==
    /\ \E cols \in SUBSET Range6 : \E n \in 0..MaxRows : \E rows \in [1..n -> Rows(cols)] :
          call = [fn |-> "validate_tohlcv",
                  frame |-> [columns |-> cols, rows |-> rows, tz |-> "UTC"]]
    /\ ret = Pending
    /\ NoMain

CallValidate ==
    /\ call.fn = "validate_tohlcv"
    /\ ret = Pending
    /\ ret' = Result(validate_tohlcv(call.frame))
    /\ UNCHANGED <<call, mainVars>>

SpecValidate == InitValidate /\ [][CallValidate]_vars

\* _sanitize_token and build_outpath_fixed -------------------------------------

\* a letter, a digit, the underscore, separators, blanks, a non-ASCII letter
TokenChars == {"A", "z", "7", "_", "-", "/", " ", "U+00E9"}

Tokens == SeqsUpTo(TokenChars, MaxLen)

\* tickers, intervals and tags as main hands them over, and hostile ones
PathTokens ==
    {AAPL, <<"^", "G", "S", "P", "C">>, <<"B", "T", "C", "-", "U", "S", "D">>,
     DEFAULT_INTERVAL, D_2024_02_28, D_2024_12_31, <<>>, <<".", ".", "/", "x">>,
     <<"a", "\\", "b">>, <<"=", "X", "=">>}

InitPath ==
    /\ call \in {[fn |-> "_sanitize_token", s |-> s] : s \in Tokens}
          \cup {[fn |-> "build_outpath_fixed", ticker |-> tk, interval |-> iv,
                 start_tag |-> st, end_tag |-> en, ext |-> ex] :
                     tk \in PathTokens, iv \in PathTokens, st \in PathTokens,
                     en \in PathTokens, ex \in {PARQUET, CSV}}
    /\ ret = Pending
    /\ NoMain

CallSanitize ==
    /\ call.fn = "_sanitize_token"
    /\ ret = Pending
    /\ ret' = Result([token |-> _sanitize_token(call.s)])
    /\ UNCHANGED <<call, mainVars>>

CallBuildOutpath ==
    /\ call.fn = "build_outpath_fixed"
    /\ ret = Pending
    /\ ret' = Result(build_outpath_fixed(call.ticker, call.interval, call.start_tag,
                                         call.end_tag, call.ext, FIXED_DATA_ROOT))
    /\ UNCHANGED <<call, mainVars>>

NextPath == CallSanitize \/ CallBuildOutpath

SpecPath == InitPath /\ [][NextPath]_vars

-----------------------------------------------------------------------------
(* Properties                                                              *)

SafeChars == Digits \cup Upper \cup Lower \cup {"_"}

\* the maximal runs of letters and digits of s, in order
RECURSIVE Words(_, _)
Words(s, cur) ==
    IF s = <<>> THEN (IF cur = <<>> THEN <<>> ELSE <<cur>>)
    ELSE IF IsAlnum(Head(s)) THEN Words(Tail(s), cur \o <<Head(s)>>)
    ELSE (IF cur = <<>> THEN <<>> ELSE <<cur>>) \o Words(Tail(s), <<>>)

RECURSIVE JoinUnderscore(_)
JoinUnderscore(ws) ==
    IF ws = <<>> THEN <<>>
    ELSE IF Len(ws) = 1 THEN ws[1]
    ELSE ws[1] \o <<"_">> \o JoinUnderscore(Tail(ws))

\* the runs of letters and digits joined by single underscores, NA without any
JoinedWords(s) ==
    IF Words(s, <<>>) = <<>> THEN NA_TOKEN ELSE JoinUnderscore(Words(s, <<>>))

\* every maximal run of other characters replaced by one underscore, wherever
\* it stands
RECURSIVE RunsReplaced(_, _)
RunsReplaced(s, inRun) ==
    IF s = <<>> THEN <<>>
    ELSE IF IsAlnum(Head(s)) THEN <<Head(s)>> \o RunsReplaced(Tail(s), FALSE)
    ELSE (IF inRun THEN <<>> ELSE <<"_">>) \o RunsReplaced(Tail(s), TRUE)

\* the day after a calendar day
NextDay(date) ==
    IF date.d < days_in_month(date.y, date.m)
    THEN [y |-> date.y, m |-> date.m, d |-> date.d + 1]
    ELSE IF date.m < 12 THEN [y |-> date.y, m |-> date.m + 1, d |-> 1]
    ELSE [y |-> date.y + 1, m |-> 1, d |-> 1]

\* start and end are both given and name the same calendar day
SameDay(start, end) ==
    /\ Truthy(start) /\ Truthy(end)
    /\ ~IsError(isoparse_date(start)) /\ ~IsError(isoparse_date(end))
    /\ isoparse_date(start) = isoparse_date(end)

\* the request of the run as main read it, before _fix_same_day_range
Asked == IF use_wizard(argv) THEN _wizard(argv) ELSE FlagRequest(argv)

InMain == pc # "idle"
Called(fn) == call.fn = fn /\ ret # Pending

----
\* C1: validate_tohlcv returns exactly for the frames that have all six
\* columns, at least one row, no missing timestamp, no timestamp twice,
\* timestamps strictly ascending in row order and, in each of open, high, low
\* and close, a value in some row; for every other frame it raises ValueError.
C1_Accepted(frame) ==
    /\ \A i \in DOMAIN REQUIRED_COLS : REQUIRED_COLS[i] \in frame.columns
    /\ Len(frame.rows) >= 1
    /\ \A i \in DOMAIN frame.rows : frame.rows[i].time # NaT
    /\ \A i, j \in DOMAIN frame.rows : i # j => frame.rows[i].time # frame.rows[j].time
    /\ \A i, j \in DOMAIN frame.rows : i < j => frame.rows[i].time[1] < frame.rows[j].time[1]
    /\ \A c \in {"open", "high", "low", "close"} :
          \E i \in DOMAIN frame.rows : frame.rows[i][c] # NaN

C1_ValidateAcceptsIff ==
    Called("validate_tohlcv") =>
        /\ ret.status = "returned" <=> C1_Accepted(call.frame)
        /\ ret.status = "raised" => ret.value.err = "ValueError"

C1_Witness ==
    /\ Called("validate_tohlcv")
    /\ ret.status = "returned"
    /\ Len(call.frame.rows) = 2
    /\ \E i \in 1..2 : call.frame.rows[i].open = NaN

----
\* C2: in a run of main, save_df is called only after fetch_tohlcv_yahoo
\* returned and validate_tohlcv then returned, and only then is a file
\* written; a run in which the fetch or the validation raised ends with exit
\* code 2 and without a call of save_df; a run ends with 0 only after both
\* returned.
C2_Order ==
    /\ \A i \in DOMAIN steps :
          /\ steps[i] \in {"fetch returned", "fetch raised"} <=> i = 1
          /\ steps[i] \in {"validate returned", "validate raised"} =>
                i = 2 /\ steps[1] = "fetch returned"
          /\ steps[i] \in {"save returned", "save raised"} =>
                i = 3 /\ steps[1] = "fetch returned" /\ steps[2] = "validate returned"
    /\ (pc = "done" /\ \E i \in DOMAIN steps : steps[i] \in {"fetch raised", "validate raised"})
          => exit = ExitCode(2) /\ steps[Len(steps)] \in {"fetch raised", "validate raised"}
    /\ exit = ExitCode(2) => \E i \in DOMAIN steps : steps[i] \in {"fetch raised", "validate raised"}
    /\ exit = ExitCode(0) =>
          Len(steps) >= 2 /\ steps[1] = "fetch returned" /\ steps[2] = "validate returned"

C2_Write ==
    files' # files =>
        /\ steps = <<"fetch returned", "validate returned">>
        /\ steps' = Append(steps, "save returned")
        /\ exit' = ExitCode(0)

C2_FetchValidateSave == [](InMain => C2_Order) /\ [][C2_Write]_vars

C2_Witness ==
    /\ pc = "done"
    /\ steps = <<"fetch returned", "validate returned", "save returned">>
    /\ exit = ExitCode(0)
    /\ files # {}

----
\* C3: whenever the start and the end of a run are both given and name the
\* same calendar day, _fix_same_day_range returns the start it was given,
\* the day after that day as YYYY-MM-DD for the end, and a warning, and main
\* hands this end to the provider.
C3_FixRan == InMain /\ pc \notin {"parse", "fix"}

C3_SameDayEndAdvanced ==
    (C3_FixRan /\ SameDay(Asked.start, Asked.end)) =>
        /\ "uncaught" \notin DOMAIN exit \/ exit.from # "_fix_same_day_range"
        /\ req.start = Asked.start
        /\ LET day == NextDay(isoparse_date(Asked.end))
           IN  req.end = IsoYMD(day.y, day.m, day.d)
        /\ Truthy(warn)
        /\ sent.contacted => sent.end = req.end /\ sent.start = req.start

\* the same, short of the last day datetime can hold
C3_BeforeLastDay ==
    (C3_FixRan /\ SameDay(Asked.start, Asked.end)
     /\ isoparse_date(Asked.end) # [y |-> MAXYEAR, m |-> 12, d |-> 31]) =>
        /\ "uncaught" \notin DOMAIN exit \/ exit.from # "_fix_same_day_range"
        /\ req.start = Asked.start
        /\ LET day == NextDay(isoparse_date(Asked.end))
           IN  req.end = IsoYMD(day.y, day.m, day.d)
        /\ Truthy(warn)
        /\ sent.contacted => sent.end = req.end /\ sent.start = req.start

C3_LastDayRaises ==
    /\ C3_FixRan
    /\ Asked.start = D_9999_12_31
    /\ Asked.end = D_9999_12_31
    /\ exit = Uncaught(OverflowError, "_fix_same_day_range")

----
\* C4 (as amended): build_outpath_fixed returns <data_root>/<T>/tohlcv/<I>/
\* <S>_<E><ext> and creates the folder of that file, where T, I, S and E are
\* the ticker, interval, start tag and end tag with their runs of ASCII
\* letters and digits kept and joined by single underscores (what stands
\* before the first and after the last run is dropped) and NA when there is
\* no such run; so each is made of A-Z, a-z, 0-9 and underscore only and the
\* path has exactly four components below the data root.
C4_PathOf(T, I, S, E) ==
    FIXED_DATA_ROOT \o <<T, TOHLCV_DIR, I, S \o <<"_">> \o E \o call.ext>>

C4_PathOfJoinedWords ==
    Called("build_outpath_fixed") =>
        /\ ret.status = "returned"
        /\ ret.value.path = C4_PathOf(JoinedWords(call.ticker), JoinedWords(call.interval),
                                      JoinedWords(call.start_tag), JoinedWords(call.end_tag))
        /\ ret.value.mkdir = SubSeq(ret.value.path, 1, Len(ret.value.path) - 1)
        /\ Len(ret.value.path) = Len(FIXED_DATA_ROOT) + 4
        /\ \A k \in {Len(FIXED_DATA_ROOT) + 1, Len(FIXED_DATA_ROOT) + 3} :
              Range(ret.value.path[k]) \subseteq SafeChars
        /\ Range(ret.value.path[Len(ret.value.path)]) \subseteq SafeChars \cup Range(call.ext)

C4_Witness ==
    /\ Called("build_outpath_fixed")
    /\ call.ticker = <<"^", "G", "S", "P", "C">>
    /\ call.start_tag = <<".", ".", "/", "x">>
    /\ call.end_tag = D_2024_12_31
    /\ ret.value.path[Len(FIXED_DATA_ROOT) + 1] = <<"G", "S", "P", "C">>

\* C4 (as claimed): T, I, S and E are the arguments with each maximal run of
\* non-alphanumeric characters replaced by a single underscore.
C4_PathOfRunsReplaced ==
    Called("build_outpath_fixed") =>
        ret.value.path = C4_PathOf(RunsReplaced(call.ticker, FALSE),
                                   RunsReplaced(call.interval, FALSE),
                                   RunsReplaced(call.start_tag, FALSE),
                                   RunsReplaced(call.end_tag, FALSE))

----
\* C5 (as amended): without --out, the runs of one command line that gives
\* both start and end all save to one path, whatever the provider returned;
\* the runs of a command line that lacks start or end save to one path when
\* the series they got begin on the same day and end on the same day.
C5_BothGiven == Truthy(Asked.start) /\ Truthy(Asked.end)

C5_PathFromRequestAndRange ==
    (InMain /\ ~Truthy(argv.out)) =>
        \A f, g \in files :
            (C5_BothGiven \/ (f.first = g.first /\ f.last = g.last)) => f.path = g.path

C5_Witness ==
    /\ InMain /\ ~Truthy(argv.out) /\ C5_BothGiven
    /\ run = 2 /\ pc = "done"
    /\ \E f, g \in files : f.path = g.path /\ f.first # g.first

\* C5 (as claimed): without --out, all runs of one command line save to one
\* path.
C5_PathFromRequestAlone ==
    (InMain /\ ~Truthy(argv.out)) => \A f, g \in files : f.path = g.path

----
\* C6: a request that reaches the provider carries start and end and no
\* period when fetch_tohlcv_yahoo was given a start or an end, and carries a
\* period and neither start nor end otherwise: the period given, 60d when
\* none was.  On the flag-driven path of main a --start or --end that is not
\* blank makes the run drop --period, so the same holds of its flags.
C6_StartEndSent(start, end) ==
    /\ DOMAIN sent = {"contacted", "tickers", "interval", "start", "end"}
    /\ sent.start = start
    /\ sent.end = end

C6_PeriodSent(period) ==
    /\ DOMAIN sent = {"contacted", "tickers", "interval", "period"}
    /\ sent.period = IF period = None THEN SIXTY_DAYS ELSE period

C6_StartEndWins ==
    /\ (call.fn = "fetch_tohlcv_yahoo" /\ sent.contacted) =>
          IF call.start # None \/ call.end # None
          THEN C6_StartEndSent(call.start, call.end)
          ELSE C6_PeriodSent(call.period)
    /\ (InMain /\ ~use_wizard(argv) /\ pc # "parse") =>
          /\ (~is_blank(argv.start) \/ ~is_blank(argv.end)) => req.period = None
          /\ sent.contacted =>
                IF ~is_blank(argv.start) \/ ~is_blank(argv.end)
                THEN /\ DOMAIN sent = {"contacted", "tickers", "interval", "start", "end"}
                     /\ sent.start = req.start
                     /\ sent.end = req.end
                ELSE C6_PeriodSent(IF is_blank(argv.period) THEN None ELSE argv.period)

C6_Witness ==
    /\ call.fn = "fetch_tohlcv_yahoo"
    /\ call.start = None /\ call.end # None /\ call.period = P_5d
    /\ sent.contacted

----
\* C7 (as amended): from a response with multi-level columns,
\* fetch_tohlcv_yahoo builds the series from the columns of the requested
\* ticker only when the response has that ticker, and from the columns of
\* the first ticker of the response when it has not.
C7_PriceColumns == {"open", "high", "low", "close", "volume"}

C7_BuiltFrom(tk) ==
    \A i \in DOMAIN df.rows : \A c \in C7_PriceColumns :
        df.rows[i][c] # NaN => df.rows[i][c][1] = tk

C7_MultiReturned ==
    /\ Called("fetch_tohlcv_yahoo")
    /\ ret.status = "returned"
    /\ ret.resp.multi

C7_RequestedOrFirstTicker ==
    C7_MultiReturned =>
        LET tk == Strip(call.ticker, Whitespace)
        IN  IF tk \in Range(ret.resp.tickers) THEN C7_BuiltFrom(tk)
            ELSE C7_BuiltFrom(ret.resp.tickers[1])

C7_Witness ==
    /\ C7_MultiReturned
    /\ ret.resp.tickers = <<AAPL, MSFT>>
    /\ Strip(call.ticker, Whitespace) = MSFT
    /\ df.rows[1].close = <<MSFT, "Close">>

\* C7 (as claimed): the series is built from the columns of the requested
\* ticker only.
C7_RequestedTickerOnly ==
    C7_MultiReturned => C7_BuiltFrom(Strip(call.ticker, Whitespace))

----
\* C8: a series fetch_tohlcv_yahoo returns has exactly the columns time,
\* open, high, low, close and volume, and its rows are in ascending order of
\* time (rows without a timestamp last); a blank ticker raises ValueError with
\* the provider not contacted; a response that is None or empty raises
\* RuntimeError.
C8_Ascending(rows) ==
    \A i, j \in DOMAIN rows :
        i < j => \/ rows[j].time = NaT
                 \/ (rows[i].time # NaT /\ rows[i].time[1] <= rows[j].time[1])

C8_IsEmpty(resp) ==
    resp = NoResponse \/ (resp # ProviderRaised /\ (resp.index = <<>> \/ resp.fields = {}))

C8_CanonicalSeries ==
    /\ df # NoFrame =>
          /\ df.columns = {"time", "open", "high", "low", "close", "volume"}
          /\ \A i \in DOMAIN df.rows : DOMAIN df.rows[i] = df.columns
          /\ C8_Ascending(df.rows)
    /\ Called("fetch_tohlcv_yahoo") =>
          /\ is_blank(call.ticker) =>
                ret.status = "raised" /\ ret.value.err = "ValueError" /\ ~sent.contacted
          /\ (~is_blank(call.ticker) /\ C8_IsEmpty(ret.resp)) =>
                ret.status = "raised" /\ ret.value.err = "RuntimeError"
          /\ ret.status = "returned" =>
                /\ df = ret.value
                /\ Len(df.rows) = Len(ret.resp.index)

C8_Witness ==
    /\ Called("fetch_tohlcv_yahoo")
    /\ ret.status = "returned"
    /\ ret.resp.index = << <<30>>, <<0>> >>
    /\ "Adj Close" \in ret.resp.fields

----
\* C9: _fix_same_day_range returns the start and the end it was given, and
\* no warning, whenever start or end is None or empty, or one of them is not
\* a date, or they name different days, a start after the end included; and
\* whatever it returns, the start is the one it was given.
C9_OnlySameDayChanges ==
    Called("_fix_same_day_range") =>
        /\ ~SameDay(call.start, call.end) =>
              /\ ret.status = "returned"
              /\ ret.value = [start |-> call.start, end |-> call.end, warn |-> None]
        /\ ret.status = "returned" => ret.value.start = call.start

C9_Witness ==
    /\ Called("_fix_same_day_range")
    /\ call.start = D_2024_12_31
    /\ call.end = D_20240228
    /\ ret.status = "returned"

----
\* C10: for every string _sanitize_token returns a token that is not empty,
\* is made of ASCII letters, digits and underscores, neither begins nor ends
\* with an underscore nor has two in a row, is NA when the string has no
\* ASCII letter or digit, and is returned unchanged when sanitized again.
C10_WellFormed(tok) ==
    /\ tok # <<>>
    /\ Range(tok) \subseteq SafeChars
    /\ tok[1] # "_"
    /\ tok[Len(tok)] # "_"
    /\ \A i \in 1..(Len(tok) - 1) : ~(tok[i] = "_" /\ tok[i + 1] = "_")

C10_SanitizeIdempotent ==
    Called("_sanitize_token") =>
        /\ ret.status = "returned"
        /\ C10_WellFormed(ret.value.token)
        /\ (\A i \in DOMAIN call.s : ~IsAlnum(call.s[i])) => ret.value.token = NA_TOKEN
        /\ _sanitize_token(ret.value.token) = ret.value.token

C10_Witness ==
    /\ Called("_sanitize_token")
    /\ call.s = <<"/", "A", " ", "_">>
    /\ ret.value.token = <<"A">>

====
